---- MODULE Spec2Model ----
\* Model of iCal_from_excel.py: the week-expression parser (parse_weeks), the
\* course-cell parser (parse_course_info) and the schedule expander
\* (create_ical_from_excel).
\*
\* Text is modelled as a sequence of characters, one string per character.
\* ASCII characters stand for themselves; the CJK characters the program
\* looks for are written by name:
\*   "dan" U+5355, "shuang" U+53CC, "zhou" U+5468, "jie" U+8282, "di" U+7B2C,
\*   "dong" U+680B, "jiao" U+6559, "lou" U+697C, "yuan" U+56ED, "chang" U+573A,
\*   "shi2" U+5B9E, "yan" U+9A8C, "shi4" U+5BA4, "xing" U+661F, "qi" U+671F,
\*   "yi" "er" "san" "si" "wu" "liu" "ri" the weekday numerals,
\*   "x" "y" any other non-blank character, "NL" line feed, "CR" carriage return.
EXTENDS Integers, Sequences, FiniteSets, TLC

VARIABLES
    week_str,      \* parse_weeks: the argument ([isStr, s])
    weeks,         \* parse_weeks: the returned list
    pw_pc,         \* parse_weeks: "call" before the call, "ret" after it
    cell_content,  \* parse_course_info: the argument (a text)
    course_info,   \* parse_course_info: the returned record, or None
    pc_pc,         \* parse_course_info: "call" / "ret"
    df,            \* create_ical_from_excel: the grid read from the file
    row_idx,       \* create_ical_from_excel: the row of the outer loop
    col_idx,       \* create_ical_from_excel: the column of the inner loop
    pc,            \* create_ical_from_excel: "row", "col" or "done"
    events,        \* the components added to the calendar, in order
    event_count    \* create_ical_from_excel: the count it returns

parser_vars == <<week_str, weeks, pw_pc, cell_content, course_info, pc_pc>>

expand_vars == <<df, row_idx, col_idx, pc, events, event_count>>

vars == <<week_str, weeks, pw_pc, cell_content, course_info, pc_pc,
          df, row_idx, col_idx, pc, events, event_count>>

\* ------------------------------------------------------------------ bounds
\* longest week expression drawn from the whole WeekAlphabet
MaxWeekLen == 4

\* most body rows of the grid
MaxRows == 2

\* most brackets on the details line of a cell
MaxBrackets == 3

\* most comma-separated parts of a week expression built from PartTexts
MaxParts == 2

\* ------------------------------------------------------------- characters
Digits == {"0", "1", "2", "3", "4", "5", "6", "7", "8", "9"}

Whitespace == {" ", "NL", "CR"}

DigitVal(c) ==
    CASE c = "0" -> 0 [] c = "1" -> 1 [] c = "2" -> 2 [] c = "3" -> 3
      [] c = "4" -> 4 [] c = "5" -> 5 [] c = "6" -> 6 [] c = "7" -> 7
      [] c = "8" -> 8 [] c = "9" -> 9

\* ------------------------------------------------------- string operations
\* s[i:], 1-based
Drop(s, n) == IF n >= Len(s) THEN <<>> ELSE SubSeq(s, n + 1, Len(s))

Take(s, n) == IF n >= Len(s) THEN s ELSE SubSeq(s, 1, n)

StartsWith(s, p) == Len(p) <= Len(s) /\ SubSeq(s, 1, Len(p)) = p

\* p in s
Contains(s, p) == \E i \in 0..(Len(s) - Len(p)) : SubSeq(s, i + 1, i + Len(p)) = p

\* str.replace(p, r): leftmost non-overlapping occurrences
RECURSIVE Replace(_, _, _)
Replace(s, p, r) ==
    IF Len(s) < Len(p) THEN s
    ELSE IF StartsWith(s, p) THEN r \o Replace(Drop(s, Len(p)), p, r)
    ELSE <<s[1]>> \o Replace(Tail(s), p, r)

RECURSIVE LStrip(_)
LStrip(s) == IF s # <<>> /\ s[1] \in Whitespace THEN LStrip(Tail(s)) ELSE s

RECURSIVE RStrip(_)
RStrip(s) ==
    IF s # <<>> /\ s[Len(s)] \in Whitespace THEN RStrip(SubSeq(s, 1, Len(s) - 1)) ELSE s

\* str.strip()
Strip(s) == RStrip(LStrip(s))

\* str.split(sep) for a one-character separator: always at least one piece
RECURSIVE Split(_, _)
Split(s, sep) ==
    IF \E i \in 1..Len(s) : s[i] = sep
    THEN LET i == CHOOSE j \in 1..Len(s) : s[j] = sep /\ \A k \in 1..(j - 1) : s[k] # sep
         IN  <<SubSeq(s, 1, i - 1)>> \o Split(Drop(s, i), sep)
    ELSE <<s>>

\* str.isdigit()
IsDigit(s) == s # <<>> /\ \A i \in 1..Len(s) : s[i] \in Digits

\* int(s) succeeds: surrounding whitespace is allowed, then decimal digits
IntOk(s) == IsDigit(Strip(s))

RECURSIVE DigitsToInt(_)
DigitsToInt(s) ==
    IF s = <<>> THEN 0 ELSE 10 * DigitsToInt(SubSeq(s, 1, Len(s) - 1)) + DigitVal(s[Len(s)])

\* int(s), where IntOk(s)
ToInt(s) == DigitsToInt(Strip(s))

SeqRange(l) == {l[i] : i \in 1..Len(l)}

\* range(start, stop) as a list
PyRange(start, stop) == [i \in 1..(stop - start) |-> start + i - 1]

\* sorted(list(set(l))): l in ascending order, each value once
SortedSet(l) ==
    LET t == SortSeq(l, LAMBDA a, b : a < b)
        first == SelectSeq(PyRange(1, Len(t) + 1), LAMBDA i : i = 1 \/ t[i] # t[i - 1])
    IN  [k \in 1..Len(first) |-> t[first[k]]]

\* ------------------------------------------------------------- parse_weeks
\* KeepWeek with the parities exchanged
KeepWeekSwapped(week, is_odd, is_even) ==
    \/ (is_odd /\ week % 2 = 0)
    \/ (is_even /\ week % 2 = 1)
    \/ (~is_odd /\ ~is_even)

\* the filter of lines 96 and 100
KeepWeek(week, is_odd, is_even) ==
    \/ (is_odd /\ week % 2 = 1)
    \/ (is_even /\ week % 2 = 0)
    \/ (~is_odd /\ ~is_even)

\* line 88: the markers are removed, in this order
StripMarkers(s) ==
    Replace(Replace(Replace(s, <<"dan", "zhou">>, <<>>), <<"shuang", "zhou">>, <<>>),
            <<"zhou">>, <<>>)

\* line 94 raises (ValueError) on this part
PartRaises(part) ==
    /\ Contains(part, <<"-">>)
    /\ LET pieces == Split(part, "-")
       IN  \/ Len(pieces) # 2
           \/ ~IntOk(pieces[1])
           \/ ~IntOk(pieces[2])

\* the weeks one part appends (lines 93-101), where the part does not raise
PartWeeks(part, is_odd, is_even) ==
    IF Contains(part, <<"-">>)
    THEN LET pieces == Split(part, "-")
             start == ToInt(pieces[1])
             end == ToInt(pieces[2])
         IN  SelectSeq(PyRange(start, end + 1), LAMBDA w : KeepWeek(w, is_odd, is_even))
    ELSE IF IsDigit(part)
    THEN LET week == ToInt(part)
         IN  IF KeepWeek(week, is_odd, is_even) THEN <<week>> ELSE <<>>
    ELSE <<>>

RECURSIVE PartsLoop(_, _, _)
PartsLoop(parts, is_odd, is_even) ==
    IF parts = <<>> THEN <<>>
    ELSE PartWeeks(Strip(parts[1]), is_odd, is_even) \o PartsLoop(Tail(parts), is_odd, is_even)

\* parse_weeks without line 103: the list as appended, unsorted, duplicates kept
parse_weeks_unsorted(arg) ==
    IF ~arg.isStr \/ arg.s = <<>> THEN <<>>
    ELSE LET s0 == Strip(arg.s)
             parts == Split(StripMarkers(s0), ",")
         IN  IF \E i \in 1..Len(parts) : PartRaises(Strip(parts[i]))
             THEN <<>>
             ELSE PartsLoop(parts, Contains(s0, <<"dan", "zhou">>),
                            Contains(s0, <<"shuang", "zhou">>))

\* parse_weeks with the try inside the loop: a part that raises is dropped alone
parse_weeks_partial(arg) ==
    IF ~arg.isStr \/ arg.s = <<>> THEN <<>>
    ELSE LET s0 == Strip(arg.s)
             parts == Split(StripMarkers(s0), ",")
             good == SelectSeq(parts, LAMBDA p : ~PartRaises(Strip(p)))
         IN  SortedSet(PartsLoop(good, Contains(s0, <<"dan", "zhou">>),
                                 Contains(s0, <<"shuang", "zhou">>)))

\* parse_weeks(week_str); the argument is [isStr |-> BOOLEAN, s |-> text]
parse_weeks(arg) ==
    IF ~arg.isStr \/ arg.s = <<>> THEN <<>>
    ELSE LET s0 == Strip(arg.s)
             is_odd == Contains(s0, <<"dan", "zhou">>)
             is_even == Contains(s0, <<"shuang", "zhou">>)
             parts == Split(StripMarkers(s0), ",")
         IN  IF \E i \in 1..Len(parts) : PartRaises(Strip(parts[i]))
             THEN <<>>
             ELSE SortedSet(PartsLoop(parts, is_odd, is_even))

None == [none |-> TRUE]

\* ------------------------------------------------------- parse_course_info
\* re.sub(r'^\[|\]$', '', line): one leading "[" and one trailing "]" removed
StripBrackets(line) ==
    LET a == IF line # <<>> /\ line[1] = "[" THEN Tail(line) ELSE line
    IN  IF a # <<>> /\ a[Len(a)] = "]" THEN SubSeq(a, 1, Len(a) - 1) ELSE a

\* content.replace('\r\n', '\n').strip(), split on '\n', lines stripped, blank lines dropped
CellLines(text) ==
    LET content == Strip(Replace(text, <<"CR", "NL">>, <<"NL">>))
        raw == Split(content, "NL")
        stripped == [i \in 1..Len(raw) |-> Strip(raw[i])]
    IN  SelectSeq(stripped, LAMBDA line : line # <<>>)

IndexFrom(s, c, from) ==
    IF \E j \in from..Len(s) : s[j] = c
    THEN CHOOSE j \in from..Len(s) : s[j] = c /\ \A k \in from..(j - 1) : s[k] # c
    ELSE 0

\* re.findall(r'\[(.*?)\]', line) from position from: each "[" pairs with the next "]"
RECURSIVE FindBrackets(_, _)
FindBrackets(line, from) ==
    LET open == IndexFrom(line, "[", from)
        close == IF open = 0 THEN 0 ELSE IndexFrom(line, "]", open + 1)
    IN  IF close = 0 THEN <<>>
        ELSE <<SubSeq(line, open + 1, close - 1)>> \o FindBrackets(line, close + 1)

\* the length of the longest run of digits s starts with (\d*)
RECURSIVE DigitRun(_)
DigitRun(s) == IF s # <<>> /\ s[1] \in Digits THEN 1 + DigitRun(Tail(s)) ELSE 0

\* ^\d+-\d+ matches a prefix of s: the length of the longest such prefix, else 0
RangePrefix(s) ==
    LET a == DigitRun(s)
        rest == Drop(s, a)
        b == IF rest # <<>> /\ rest[1] = "-" THEN DigitRun(Tail(rest)) ELSE 0
    IN  IF a > 0 /\ b > 0 THEN a + 1 + b ELSE 0

WeekSuffixes == { <<>>, <<"zhou">>, <<"dan", "zhou">>, <<"shuang", "zhou">> }

\* re.match(r'^(\d+-\d+|\d+)(U+5355 U+5468|U+53CC U+5468|U+5468)?$', content), line 52
MatchesWeekPattern(content) ==
    \/ (DigitRun(content) > 0 /\ Drop(content, DigitRun(content)) \in WeekSuffixes)
    \/ (RangePrefix(content) > 0 /\ Drop(content, RangePrefix(content)) \in WeekSuffixes)

\* re.match(r'^\d+-\d+U+8282$', content), line 55
MatchesTimePattern(content) ==
    RangePrefix(content) > 0 /\ Drop(content, RangePrefix(content)) = <<"jie">>

\* line 58
LocationKeywords ==
    { <<"dong">>, <<"jiao">>, <<"lou">>, <<"yuan">>, <<"chang">>, <<"shi2", "yan", "shi4">> }

HasLocationKeyword(content) == \E k \in LocationKeywords : Contains(content, k)

\* one iteration of the loop of lines 50-66
Classify(result, content) ==
    IF MatchesWeekPattern(content) THEN [result EXCEPT !.week_info = content]
    ELSE IF MatchesTimePattern(content) THEN [result EXCEPT !.time_info = content]
    ELSE IF HasLocationKeyword(content) THEN [result EXCEPT !.location = content]
    ELSE IF result.week_info = <<>> /\ DigitRun(content) > 0
        THEN [result EXCEPT !.week_info = content]
    ELSE IF result.time_info = <<>> /\ RangePrefix(content) > 0
        THEN [result EXCEPT !.time_info = content]
    ELSE [result EXCEPT !.location = content]

\* the loop with a break after the first content the week pattern matches
RECURSIVE ClassifyLoopBreak(_, _)
ClassifyLoopBreak(result, contents) ==
    IF contents = <<>> THEN result
    ELSE IF MatchesWeekPattern(contents[1]) THEN Classify(result, contents[1])
    ELSE ClassifyLoopBreak(Classify(result, contents[1]), Tail(contents))

\* the loop of lines 50-66
RECURSIVE ClassifyLoop(_, _)
ClassifyLoop(result, contents) ==
    IF contents = <<>> THEN result
    ELSE ClassifyLoop(Classify(result, contents[1]), Tail(contents))

\* lines 36-43
InitialResult(lines) ==
    [ course_name |-> Strip(Split(lines[1], "[")[1]),
      teacher |-> StripBrackets(lines[2]),
      class_info |-> StripBrackets(lines[3]),
      week_info |-> <<>>,
      location |-> <<>>,
      time_info |-> <<>> ]

\* parse_course_info(cell_content); the argument is [isStr |-> BOOLEAN, s |-> text]
parse_course_info(arg) ==
    IF ~arg.isStr \/ arg.s = <<>> \/ Strip(arg.s) = <<>> THEN None
    ELSE LET lines == CellLines(arg.s)
         IN  IF Len(lines) < 4 THEN None
             ELSE ClassifyLoop(InitialResult(lines), FindBrackets(lines[4], 1))

\* -------------------------------------------------- create_ical_from_excel
\* A grid value is [isStr, s]: a text, None ([isStr |-> FALSE, s |-> <<>>]) or
\* another value, such as a number, with s what str() gives for it.
NoneArg == [isStr |-> FALSE, s |-> <<>>]

\* not v, for the values above
Falsy(v) == v.s = <<>>

\* line 123; dates are counted in days from semester_start, a Monday
semester_start == 0

\* the last day datetime can hold, 9999-12-31, in days from semester_start
LastDay == 2912760

\* the body rows start at df row 3 (line 137)
HeaderRows == 3

\* the weekday columns are 1..7 (line 153)
WeekdayColumns == 7

\* lines 124-125
weekday_map ==
    (<<"xing", "qi", "yi">> :> 0) @@ (<<"xing", "qi", "er">> :> 1)
        @@ (<<"xing", "qi", "san">> :> 2) @@ (<<"xing", "qi", "si">> :> 3)
        @@ (<<"xing", "qi", "wu">> :> 4) @@ (<<"xing", "qi", "liu">> :> 5)
        @@ (<<"xing", "qi", "ri">> :> 6)

\* lines 126-132
class_time_map ==
    (<<"1", "-", "2", "jie">> :> <<8, 0, 9, 50>>)
        @@ (<<"3", "-", "4", "jie">> :> <<10, 10, 12, 0>>)
        @@ (<<"5", "-", "6", "jie">> :> <<14, 0, 15, 50>>)
        @@ (<<"7", "-", "8", "jie">> :> <<16, 0, 17, 50>>)
        @@ (<<"9", "-", "1", "0", "jie">> :> <<19, 0, 20, 50>>)

\* len(df)
DfLen == HeaderRows + Len(df.rows)

\* df.iloc[row, 0] and df.iloc[row, col] of a body row; df.iloc[2, col]
TimeSlotAt(row) == df.rows[row - HeaderRows + 1].time_slot

CellAt(row, col) == df.rows[row - HeaderRows + 1].cells[col]

WeekdayAt(col) == df.weekdays[col]

\* the pattern U+7B2C (\d+)-(\d+) U+8282 matches text at position i
SlotMatchAt(text, i) ==
    /\ text[i] = "di"
    /\ LET rest == Drop(text, i)
           n == RangePrefix(rest)
       IN  n > 0 /\ Len(rest) > n /\ rest[n + 1] = "jie"

\* re.search(r'U+7B2C(\d+)-(\d+)U+8282', text): the two groups of the leftmost
\* match, or <<>> when there is none (line 143)
SlotSearch(text) ==
    IF \E i \in 1..Len(text) : SlotMatchAt(text, i)
    THEN LET i == CHOOSE j \in 1..Len(text) :
                      SlotMatchAt(text, j) /\ \A k \in 1..(j - 1) : ~SlotMatchAt(text, k)
             rest == Drop(text, i)
             a == DigitRun(rest)
         IN  <<SubSeq(rest, 1, a), SubSeq(rest, a + 2, RangePrefix(rest))>>
    ELSE <<>>

\* line 147
TimeKey(time_match) == time_match[1] \o <<"-">> \o time_match[2] \o <<"jie">>

\* a lookup that falls back on the first slot for a key the table lacks
SlotTimeDefaulting(time_key) ==
    IF time_key \in DOMAIN class_time_map THEN class_time_map[time_key] ELSE <<8, 0, 9, 50>>

\* the clock range of a slot label, <<>> for a label the table lacks (line 148)
SlotTime(time_key) ==
    IF time_key \in DOMAIN class_time_map THEN class_time_map[time_key] ELSE <<>>

\* the row is passed over: lines 139-150
RowSkipped(time_slot) ==
    IF Falsy(time_slot) THEN TRUE
    ELSE IF ~Contains(time_slot.s, <<"di">>) THEN TRUE
    ELSE IF SlotSearch(time_slot.s) = <<>> THEN TRUE
    ELSE IF SlotSearch(time_slot.s)[1] = SlotSearch(time_slot.s)[2] THEN TRUE
    ELSE SlotTime(TimeKey(SlotSearch(time_slot.s))) = <<>>

\* a break in the place of the continue
AfterRowBreak(row) == DfLen

\* the continue of lines 140, 145 and 150
AfterRow(row) == row + 1

\* the column is passed over: lines 154-172
CellSkipped(weekday, cell) ==
    IF Falsy(weekday) THEN TRUE
    ELSE IF weekday.s \notin DOMAIN weekday_map THEN TRUE
    ELSE IF Falsy(cell) THEN TRUE
    ELSE IF Strip(cell.s) = <<>> THEN TRUE
    ELSE IF parse_course_info(cell) = None THEN TRUE
    ELSE parse_weeks([isStr |-> TRUE, s |-> parse_course_info(cell).week_info]) = <<>>

\* timedelta(weeks=week, ...): the first week one week late
CourseDayLate(week, days) == semester_start + 7 * week + days

\* semester_start + timedelta(weeks=week-1, days=...), lines 178-181
CourseDay(week, days) == semester_start + 7 * (week - 1) + days

\* lines 178-186 raise (OverflowError: the date is after 9999-12-31)
EventRaises(week, days) == CourseDay(week, days) > LastDay

\* the component of lines 189-200; the description is kept as the values it embeds
MakeEvent(info, week, time_key, days) ==
    LET t == SlotTime(time_key)
    IN  [ summary |-> info.course_name,
          description |-> [ teacher |-> info.teacher, class_info |-> info.class_info,
                            week |-> week, time_key |-> time_key,
                            location |-> info.location ],
          location |-> info.location,
          dtstart |-> [day |-> CourseDay(week, days), hour |-> t[1], minute |-> t[2]],
          dtend |-> [day |-> CourseDay(week, days), hour |-> t[3], minute |-> t[4]] ]

\* the loop of lines 175-206 for one cell: an event per week, but for those that raise
CellEvents(time_key, weekday, cell) ==
    LET info == parse_course_info(cell)
        ws == parse_weeks([isStr |-> TRUE, s |-> info.week_info])
        days == weekday_map[weekday.s]
        kept == SelectSeq(ws, LAMBDA w : ~EventRaises(w, days))
    IN  [i \in 1..Len(kept) |-> MakeEvent(info, kept[i], time_key, days)]

\* the events of the columns col..7 of a body row that is not passed over
RECURSIVE ColumnsEvents(_, _, _)
ColumnsEvents(d, r, col) ==
    IF col > WeekdayColumns THEN <<>>
    ELSE (IF CellSkipped(d.weekdays[col], d.rows[r].cells[col]) THEN <<>>
          ELSE CellEvents(TimeKey(SlotSearch(d.rows[r].time_slot.s)), d.weekdays[col],
                          d.rows[r].cells[col]))
         \o ColumnsEvents(d, r, col + 1)

\* the events of the body rows r.. of grid d: the loops of lines 137-206
RECURSIVE RowsEvents(_, _)
RowsEvents(d, r) ==
    IF r > Len(d.rows) THEN <<>>
    ELSE (IF RowSkipped(d.rows[r].time_slot) THEN <<>> ELSE ColumnsEvents(d, r, 1))
         \o RowsEvents(d, r + 1)

ExpanderIdle ==
    /\ df = [weekdays |-> <<>>, rows |-> <<>>]
    /\ row_idx = HeaderRows
    /\ col_idx = 1
    /\ pc = "idle"
    /\ events = <<>>
    /\ event_count = 0

\* ------------------------------------------------- specification: SpecWeeks
WeekAlphabet == {"0", "1", "2", "-", ",", "dan", "shuang", "zhou", "x"}

RECURSIVE TextsUpTo(_, _)
TextsUpTo(A, n) ==
    IF n = 0 THEN {<<>>}
    ELSE LET shorter == TextsUpTo(A, n - 1)
         IN  shorter \cup {Append(s, c) : s \in shorter, c \in A}

NumTexts == {<<"0">>, <<"1">>, <<"2">>}

\* single weeks, ranges (a <= b and a > b), and parts that are neither
PartTexts ==
    NumTexts
        \cup {a \o <<"-">> \o b : a \in NumTexts, b \in NumTexts}
        \cup { <<>>, <<"x">>, <<"1", "-">>, <<"1", "-", "2", "-", "3">>,
               <<" ", "2", " ">>, <<"1", " ", "-", "3">> }

\* parts joined by commas: "1-2,3"
RECURSIVE PartLists(_)
PartLists(n) ==
    IF n = 1 THEN PartTexts
    ELSE LET shorter == PartLists(n - 1)
         IN  shorter \cup {l \o <<",">> \o p : l \in shorter, p \in PartTexts}

\* nothing, U+5468, U+5355 U+5468, U+53CC U+5468, and both markers in either order
MarkerSuffixes ==
    { <<>>, <<"zhou">>, <<"dan", "zhou">>, <<"shuang", "zhou">>,
      <<"dan", "zhou", "shuang", "zhou">>, <<"shuang", "zhou", "dan", "zhou">> }

WeekTexts ==
    TextsUpTo(WeekAlphabet, MaxWeekLen)
        \cup {b \o m : b \in PartLists(MaxParts), m \in MarkerSuffixes}

WeekArgs == {[isStr |-> TRUE, s |-> s] : s \in WeekTexts} \cup {NoneArg}

InitWeeks ==
    /\ week_str \in WeekArgs
    /\ weeks = <<>>
    /\ pw_pc = "call"
    /\ cell_content = NoneArg
    /\ course_info = None
    /\ pc_pc = "idle"
    /\ ExpanderIdle

CallParseWeeks ==
    /\ pw_pc = "call"
    /\ weeks' = parse_weeks(week_str)
    /\ pw_pc' = "ret"
    /\ UNCHANGED <<week_str, cell_content, course_info, pc_pc>>
    /\ UNCHANGED expand_vars

NextWeeks == CallParseWeeks

SpecWeeks == InitWeeks /\ [][NextWeeks]_vars

\* -------------------------------------------------- specification: SpecCell
\* what stands between the brackets of a details line
BracketContents ==
    { <<"1", "-", "2", "zhou">>,                \* 1-2 U+5468
      <<"3", "dan", "zhou">>,                   \* 3 U+5355 U+5468
      <<"1", "-", "2", ",", "4", "zhou">>,      \* 1-2,4 U+5468
      <<"1", "-", "2", "jie">>,                 \* 1-2 U+8282
      <<"jiao", "3">>,                          \* a location keyword
      <<"3", "lou">>,                           \* a digit, then a location keyword
      <<"3", "x">>,                             \* a digit, then other text
      <<"1", "-", "2", "x">>,                   \* a range, then other text
      <<"x">>,                                  \* other text
      <<>> }

RECURSIVE BracketLists(_)
BracketLists(n) ==
    IF n = 0 THEN {<<>>}
    ELSE LET shorter == BracketLists(n - 1)
         IN  shorter \cup {Append(l, c) : l \in shorter, c \in BracketContents}

RECURSIVE DetailsLine(_)
DetailsLine(contents) ==
    IF contents = <<>> THEN <<>>
    ELSE <<"[">> \o contents[1] \o <<"]">> \o DetailsLine(Tail(contents))

\* the first three lines of a cell and the line ends between them
CellHeads ==
    { <<"x", "y", "NL", "[", "y", "]", "NL", "[", "x", "]", "NL">>,
      <<"x", "[", "y", "]", "CR", "NL", "y", "CR", "NL", "[", "x", "CR", "NL">>,
      <<"[", "x", "]", "NL", "[", "y", "]", "NL", "[", "x", "]", "NL">>,
      <<" ", "[", "NL", "y", "]", "NL", " ", "NL", "[", "[", "x", "]", "]", " ", "NL">>,
      <<"NL", " ", "x", " ", "NL", "NL", "[", "y", "]", "NL", "x", "NL">> }

\* cells of fewer than four non-blank lines, and cells that are not text
ShortCells ==
    { NoneArg,
      [isStr |-> TRUE, s |-> <<>>],
      [isStr |-> TRUE, s |-> <<" ", "NL">>],
      [isStr |-> TRUE, s |-> <<"x", "NL", "[", "y", "]">>],
      [isStr |-> TRUE, s |-> <<"x", "NL", "[", "y", "]", "NL", " ", "NL", "[", "x", "]">>] }

CellArgs ==
    ShortCells \cup
        { [isStr |-> TRUE, s |-> h \o DetailsLine(l)] :
              h \in CellHeads, l \in BracketLists(MaxBrackets) \ {<<>>} }

InitCell ==
    /\ cell_content \in CellArgs
    /\ course_info = None
    /\ pc_pc = "call"
    /\ week_str = NoneArg
    /\ weeks = <<>>
    /\ pw_pc = "idle"
    /\ ExpanderIdle

CallParseCourseInfo ==
    /\ pc_pc = "call"
    /\ course_info' = parse_course_info(cell_content)
    /\ pc_pc' = "ret"
    /\ UNCHANGED <<cell_content, week_str, weeks, pw_pc>>
    /\ UNCHANGED expand_vars

NextCell == CallParseCourseInfo

SpecCell == InitCell /\ [][NextCell]_vars

\* ------------------------------------------------ specification: SpecExpand
Text(s) == [isStr |-> TRUE, s |-> s]

\* column 0 of a body row
TimeSlots ==
    { Text(<<"di", "1", "-", "2", "jie">>),
      Text(<<"x", "di", "9", "-", "1", "0", "jie", "x">>),
      Text(<<"di", "1", "-", "1", "jie">>),
      Text(<<"di", "0", "1", "-", "1", "jie">>),
      Text(<<"di", "1", "1", "-", "1", "2", "jie">>),
      Text(<<"di", "x">>),
      Text(<<"x">>),
      NoneArg }

CellHead == <<"x", "NL", "[", "y", "]", "NL", "[", "y", "]", "NL">>

\* weeks 1-2
GoodCell == Text(CellHead \o DetailsLine(<< <<"1", "-", "2", "zhou">>, <<"jiao", "3">> >>))

\* weeks 1 and 3, the brackets in another order
OddCell ==
    Text(CellHead \o DetailsLine(<< <<"1", "-", "2", "jie">>, <<"1", "-", "3", "dan", "zhou">> >>))

\* weeks 0 and 1
WeekZeroCell == Text(CellHead \o DetailsLine(<< <<"0", "-", "1", "zhou">> >>))

\* weeks 416109 and 416110, around the last date datetime can hold
LastWeeksCell ==
    Text(CellHead \o DetailsLine(<< <<"4", "1", "6", "1", "0", "9", "-",
                                     "4", "1", "6", "1", "1", "0", "zhou">> >>))

\* two lines only
MalformedCell == Text(<<"x", "NL", "[", "y", "]">>)

\* the range 2-1 holds no week
NoWeeksCell == Text(CellHead \o DetailsLine(<< <<"2", "-", "1", "zhou">>, <<"jiao", "3">> >>))

BlankCell == Text(<<" ">>)

NumberCell == [isStr |-> FALSE, s |-> <<"5">>]

\* the seven cells of a body row
CellRows ==
    { <<GoodCell, MalformedCell, NumberCell, OddCell, LastWeeksCell, NoneArg, BlankCell>>,
      <<NoWeeksCell, NoneArg, NoneArg, WeekZeroCell, GoodCell, LastWeeksCell, OddCell>> }

BodyRows == {[time_slot |-> t, cells |-> c] : t \in TimeSlots, c \in CellRows}

RECURSIVE RowLists(_)
RowLists(n) ==
    IF n = 0 THEN {<<>>}
    ELSE LET shorter == RowLists(n - 1)
         IN  shorter \cup {Append(l, r) : l \in shorter, r \in BodyRows}

Weekdays ==
    << Text(<<"xing", "qi", "yi">>), Text(<<"xing", "qi", "er">>), Text(<<"xing", "qi", "san">>),
       Text(<<"xing", "qi", "si">>), Text(<<"xing", "qi", "wu">>), Text(<<"xing", "qi", "liu">>),
       Text(<<"xing", "qi", "ri">>) >>

\* row 2 of the grid: the seven labels, or some of them unknown or missing
WeekdayRows ==
    { Weekdays,
      [Weekdays EXCEPT ![5] = Text(<<"zhou", "wu">>), ![7] = NoneArg] }

InitExpand ==
    /\ df \in {[weekdays |-> w, rows |-> l] : w \in WeekdayRows, l \in RowLists(MaxRows)}
    /\ row_idx = HeaderRows
    /\ col_idx = 1
    /\ pc = "row"
    /\ events = <<>>
    /\ event_count = 0
    /\ week_str = NoneArg
    /\ weeks = <<>>
    /\ pw_pc = "idle"
    /\ cell_content = NoneArg
    /\ course_info = None
    /\ pc_pc = "idle"

\* lines 137-150: the row is passed over
SkipRow ==
    /\ pc = "row"
    /\ row_idx < DfLen
    /\ RowSkipped(TimeSlotAt(row_idx))
    /\ row_idx' = AfterRow(row_idx)
    /\ UNCHANGED <<df, col_idx, pc, events, event_count>>
    /\ UNCHANGED parser_vars

\* lines 137-153: the row has a known slot; its columns follow
EnterRow ==
    /\ pc = "row"
    /\ row_idx < DfLen
    /\ ~RowSkipped(TimeSlotAt(row_idx))
    /\ pc' = "col"
    /\ col_idx' = 1
    /\ UNCHANGED <<df, row_idx, events, event_count>>
    /\ UNCHANGED parser_vars

\* lines 153-172: the column is passed over
SkipCell ==
    /\ pc = "col"
    /\ col_idx <= WeekdayColumns
    /\ CellSkipped(WeekdayAt(col_idx), CellAt(row_idx, col_idx))
    /\ col_idx' = col_idx + 1
    /\ UNCHANGED <<df, row_idx, pc, events, event_count>>
    /\ UNCHANGED parser_vars

\* lines 153-206: the events of one cell
EmitCell ==
    /\ pc = "col"
    /\ col_idx <= WeekdayColumns
    /\ ~CellSkipped(WeekdayAt(col_idx), CellAt(row_idx, col_idx))
    /\ LET new == CellEvents(TimeKey(SlotSearch(TimeSlotAt(row_idx).s)), WeekdayAt(col_idx),
                             CellAt(row_idx, col_idx))
       IN  /\ events' = events \o new
           /\ event_count' = event_count + Len(new)
    /\ col_idx' = col_idx + 1
    /\ UNCHANGED <<df, row_idx, pc>>
    /\ UNCHANGED parser_vars

\* the inner loop is over: the next row
EndRow ==
    /\ pc = "col"
    /\ col_idx > WeekdayColumns
    /\ row_idx' = row_idx + 1
    /\ pc' = "row"
    /\ UNCHANGED <<df, col_idx, events, event_count>>
    /\ UNCHANGED parser_vars

\* lines 208-216: the outer loop is over; event_count is returned
Finish ==
    /\ pc = "row"
    /\ row_idx >= DfLen
    /\ pc' = "done"
    /\ UNCHANGED <<df, row_idx, col_idx, events, event_count>>
    /\ UNCHANGED parser_vars

NextExpand == SkipRow \/ EnterRow \/ SkipCell \/ EmitCell \/ EndRow \/ Finish

SpecExpand == InitExpand /\ [][NextExpand]_vars

\* ---------------------------------------------------- claims on parse_weeks
Returned == pw_pc = "ret"

Ascending(l) == \A i \in 1..(Len(l) - 1) : l[i] < l[i + 1]

\* a part of the form "a": decimal digits only
IsSingle(part) == IsDigit(part)

\* a part of the form "a-b": digits, one hyphen, digits
IsRange(part) ==
    \E i \in 2..(Len(part) - 1) :
        /\ part[i] = "-"
        /\ IsDigit(SubSeq(part, 1, i - 1))
        /\ IsDigit(SubSeq(part, i + 1, Len(part)))

RangeLo(part) == DigitsToInt(Split(part, "-")[1])

RangeHi(part) == DigitsToInt(Split(part, "-")[2])

\* the integers a part names
PartSet(part) ==
    IF IsSingle(part) THEN {DigitsToInt(part)}
    ELSE IF IsRange(part) THEN RangeLo(part)..RangeHi(part)
    ELSE {}

\* the expression without a trailing U+5468
Unsuffixed(s) == IF s # <<>> /\ s[Len(s)] = "zhou" THEN SubSeq(s, 1, Len(s) - 1) ELSE s

\* comma-separated parts, each "a" or "a-b" with a <= b, no modifier
PlainExpr(s) ==
    LET parts == Split(Unsuffixed(s), ",")
    IN  /\ s # <<>>
        /\ \A i \in 1..Len(parts) :
              \/ IsSingle(parts[i])
              \/ (IsRange(parts[i]) /\ RangeLo(parts[i]) <= RangeHi(parts[i]))

PlainUnion(s) ==
    LET parts == Split(Unsuffixed(s), ",")
    IN  UNION {PartSet(parts[i]) : i \in 1..Len(parts)}

\* C2: for an expression without modifier whose parts are integers or ranges
\* a-b with a <= b, parse_weeks returns exactly the union of the parts'
\* integers, ascending and without duplicates.
C2_UnionAscending ==
    (Returned /\ week_str.isStr /\ PlainExpr(week_str.s)) =>
        /\ Ascending(weeks)
        /\ SeqRange(weeks) = PlainUnion(week_str.s)

\* a range and a second part that repeats one of its weeks or precedes it
C2_Witness ==
    /\ Returned
    /\ week_str.isStr
    /\ PlainExpr(week_str.s)
    /\ Contains(week_str.s, <<"-">>)
    /\ Contains(week_str.s, <<",">>)
    /\ Len(weeks) >= 3

HasOdd(s) == Contains(s, <<"dan", "zhou">>)

HasEven(s) == Contains(s, <<"shuang", "zhou">>)

AllOdd(l) == \A i \in 1..Len(l) : l[i] % 2 = 1

AllEven(l) == \A i \in 1..Len(l) : l[i] % 2 = 0

\* the weeks the expression lists, whatever its markers
Listed(s) == parse_weeks([isStr |-> TRUE, s |-> StripMarkers(Strip(s))])

\* C3 as stated: with the marker U+5355 U+5468 every returned week is odd,
\* with the marker U+53CC U+5468 every returned week is even.
C3_Original ==
    (Returned /\ week_str.isStr) =>
        /\ HasOdd(week_str.s) => AllOdd(weeks)
        /\ HasEven(week_str.s) => AllEven(weeks)

\* C3 amended: with exactly one of the two markers the returned weeks are the
\* listed weeks of that parity; with both markers, as with neither, every
\* listed week is returned.
C3_OneModifier ==
    (Returned /\ week_str.isStr) =>
        LET s == week_str.s
            all == Listed(s)
        IN  /\ (HasOdd(s) /\ ~HasEven(s)) =>
                  weeks = SelectSeq(all, LAMBDA w : w % 2 = 1)
            /\ (HasEven(s) /\ ~HasOdd(s)) =>
                  weeks = SelectSeq(all, LAMBDA w : w % 2 = 0)
            /\ (HasOdd(s) = HasEven(s)) => weeks = all

\* both markers on a list with an odd and an even week, and both are returned
C3_Witness ==
    /\ Returned
    /\ week_str.isStr
    /\ HasOdd(week_str.s)
    /\ HasEven(week_str.s)
    /\ ~AllOdd(weeks)
    /\ ~AllEven(weeks)

\* a part that is text but neither digits nor a range, and has no hyphen
NonNumericPart(part) == part # <<>> /\ ~IsDigit(part) /\ ~Contains(part, <<"-">>)

\* a part with a hyphen that is not two integers around one hyphen
MalformedRange(part) ==
    /\ Contains(part, <<"-">>)
    /\ LET pieces == Split(part, "-")
       IN  ~(Len(pieces) = 2 /\ IntOk(pieces[1]) /\ IntOk(pieces[2]))

ExprParts(s) == Split(StripMarkers(Strip(s)), ",")

\* C4 as stated: an empty, non-string or malformed input gives the empty
\* WeekSet; one non-numeric part or malformed range empties the whole result.
C4_Original ==
    Returned =>
        /\ (~week_str.isStr \/ week_str.s = <<>>) => weeks = <<>>
        /\ (week_str.isStr /\ \E i \in 1..Len(ExprParts(week_str.s)) :
                LET part == Strip(ExprParts(week_str.s)[i])
                IN  NonNumericPart(part) \/ MalformedRange(part))
              => weeks = <<>>

\* C4 amended: an empty or non-string input gives the empty WeekSet; a part
\* with a hyphen that is not two integers around one hyphen empties the whole
\* result; a part without a hyphen that is not all digits is skipped, and the
\* weeks of the other parts are still returned.
C4_RangeErrorsOnly ==
    Returned =>
        /\ (~week_str.isStr \/ week_str.s = <<>>) => weeks = <<>>
        /\ week_str.isStr =>
              LET parts == ExprParts(week_str.s)
                  bad == \E i \in 1..Len(parts) : MalformedRange(Strip(parts[i]))
                  numeric == SelectSeq(parts, LAMBDA p : ~NonNumericPart(Strip(p)))
              IN  /\ bad => weeks = <<>>
                  /\ ~bad => weeks = SortedSet(
                                 PartsLoop(numeric, HasOdd(week_str.s), HasEven(week_str.s)))

\* a non-numeric part next to a numeric one, whose week is returned
C4_Witness ==
    /\ Returned
    /\ week_str.isStr
    /\ \E i \in 1..Len(ExprParts(week_str.s)) : NonNumericPart(Strip(ExprParts(week_str.s)[i]))
    /\ weeks # <<>>

\* C8 as stated: every returned week is a positive integer.
C8_Original == Returned => \A i \in 1..Len(weeks) : weeks[i] >= 1

\* --------------------------------------------- claims on parse_course_info
CellReturned == pc_pc = "ret"

\* the contents of the brackets of the argument's details line
ArgBrackets == FindBrackets(CellLines(cell_content.s)[4], 1)

\* C7 as stated: a returned record has a non-empty course_name.
C7_Original == (CellReturned /\ course_info # None) => course_info.course_name # <<>>

\* the week-range grammar: comma-separated integers or ranges, then nothing,
\* U+5468, U+5355 U+5468 or U+53CC U+5468
InWeekGrammar(content) ==
    \E m \in WeekSuffixes :
        /\ Len(m) < Len(content)
        /\ SubSeq(content, Len(content) - Len(m) + 1, Len(content)) = m
        /\ LET parts == Split(SubSeq(content, 1, Len(content) - Len(m)), ",")
           IN  \A i \in 1..Len(parts) : IsSingle(parts[i]) \/ IsRange(parts[i])

\* C9 as stated: the only bracket content in the week-range grammar becomes
\* week_info, whatever brackets precede it.
C9_Original ==
    (CellReturned /\ course_info # None) =>
        \A i \in 1..Len(ArgBrackets) :
            ( /\ InWeekGrammar(ArgBrackets[i])
              /\ \A j \in 1..Len(ArgBrackets) : InWeekGrammar(ArgBrackets[j]) => j = i )
                => course_info.week_info = ArgBrackets[i]

Triple(r) == <<r.week_info, r.time_info, r.location>>

EmptyResult ==
    [ course_name |-> <<>>, teacher |-> <<>>, class_info |-> <<>>,
      week_info |-> <<>>, location |-> <<>>, time_info |-> <<>> ]

Permuted(l, p) == [i \in 1..Len(l) |-> l[p[i]]]

Orders(n) == {p \in [1..n -> 1..n] : \A i, j \in 1..n : p[i] = p[j] => i = j}

\* C10 as stated: every permutation of the brackets gives the same
\* (week_info, time_info, location).
C10_Original ==
    (CellReturned /\ course_info # None) =>
        \A p \in Orders(Len(ArgBrackets)) :
            Triple(ClassifyLoop(EmptyResult, Permuted(ArgBrackets, p))) = Triple(course_info)

\* the field a content is assigned to when it is the only bracket
FieldAlone(content) ==
    IF MatchesWeekPattern(content) THEN "week_info"
    ELSE IF MatchesTimePattern(content) THEN "time_info"
    ELSE IF HasLocationKeyword(content) THEN "location"
    ELSE IF content # <<>> /\ content[1] \in Digits THEN "week_info"
    ELSE "location"

\* no two brackets are assigned to the same field when each is classified alone
NoCompetition(l) ==
    \A i, j \in 1..Len(l) : i # j => FieldAlone(l[i]) # FieldAlone(l[j])

FieldValue(l, field) ==
    IF \E i \in 1..Len(l) : FieldAlone(l[i]) = field
    THEN l[CHOOSE i \in 1..Len(l) : FieldAlone(l[i]) = field]
    ELSE <<>>

\* C10 amended: when no two brackets are assigned to the same field when each
\* is classified alone, each field holds the bracket assigned to it alone and
\* every permutation of the brackets gives the same triple.
C10_NoCompetition ==
    (CellReturned /\ course_info # None /\ NoCompetition(ArgBrackets)) =>
        /\ Triple(course_info) =
              << FieldValue(ArgBrackets, "week_info"), FieldValue(ArgBrackets, "time_info"),
                 FieldValue(ArgBrackets, "location") >>
        /\ \A p \in Orders(Len(ArgBrackets)) :
              Triple(ClassifyLoop(EmptyResult, Permuted(ArgBrackets, p))) = Triple(course_info)

\* three brackets, one per field, the week bracket not last
C10_Witness ==
    /\ CellReturned
    /\ course_info # None
    /\ Len(ArgBrackets) = 3
    /\ NoCompetition(ArgBrackets)
    /\ MatchesWeekPattern(ArgBrackets[1])
    /\ course_info.week_info # <<>>
    /\ course_info.time_info # <<>>
    /\ course_info.location # <<>>

\* ------------------------------------------- claims on create_ical_from_excel
\* the body row and the cell the loops are at
AtRow == pc \in {"row", "col"} /\ row_idx < DfLen

AtCell == pc = "col" /\ row_idx < DfLen /\ col_idx <= WeekdayColumns

\* the label holds U+7B2C N-M U+8282 with N and M different texts, and the
\* table has an entry for N-M U+8282
KnownSlotRow(time_slot) ==
    /\ time_slot.isStr
    /\ SlotSearch(time_slot.s) # <<>>
    /\ SlotSearch(time_slot.s)[1] # SlotSearch(time_slot.s)[2]
    /\ TimeKey(SlotSearch(time_slot.s)) \in DOMAIN class_time_map

KnownWeekday(weekday) == weekday.isStr /\ weekday.s \in DOMAIN weekday_map

WeekSetOf(cell) == parse_weeks(Text(parse_course_info(cell).week_info))

\* the cell passes every check of the inner loop
CellPasses(cell) ==
    /\ cell.isStr
    /\ parse_course_info(cell) # None
    /\ WeekSetOf(cell) # <<>>

\* the cell the loops are at passes all skip checks
PassingHere ==
    /\ AtCell
    /\ KnownSlotRow(TimeSlotAt(row_idx))
    /\ KnownWeekday(WeekdayAt(col_idx))
    /\ CellPasses(CellAt(row_idx, col_idx))

\* the events a step adds
Added == SubSeq(events', Len(events) + 1, Len(events'))

\* the step adds one event per week of ws, on semester_start + 7 (w - 1) + the
\* weekday's offset, from the slot's start time to its end time
AddsWeeks(ws) ==
    LET days == weekday_map[WeekdayAt(col_idx).s]
        clock == class_time_map[TimeKey(SlotSearch(TimeSlotAt(row_idx).s))]
    IN  /\ Len(events') = Len(events) + Len(ws)
        /\ SubSeq(events', 1, Len(events)) = events
        /\ \A i \in 1..Len(ws) :
              /\ Added[i].dtstart =
                    [day |-> semester_start + 7 * (ws[i] - 1) + days,
                     hour |-> clock[1], minute |-> clock[2]]
              /\ Added[i].dtend =
                    [day |-> semester_start + 7 * (ws[i] - 1) + days,
                     hour |-> clock[3], minute |-> clock[4]]
              /\ Added[i].description.week = ws[i]

\* C1 as stated: a cell that passes all skip checks gives exactly one event
\* per week of its WeekSet, dated semester_start + 7 (w - 1) + offset, with the
\* slot's clock times; nothing else gives an event.
C1_Original ==
    [][ IF PassingHere THEN AddsWeeks(WeekSetOf(CellAt(row_idx, col_idx)))
        ELSE events' = events ]_vars

\* the weeks of ws whose date is not after 9999-12-31
Representable(ws, days) ==
    SelectSeq(ws, LAMBDA w : semester_start + 7 * (w - 1) + days <= LastDay)

\* C1 amended: a cell that passes all skip checks gives exactly one event per
\* week of its WeekSet whose date is not after 9999-12-31, dated
\* semester_start + 7 (w - 1) + offset, with the slot's clock times; a week
\* whose date is later is dropped alone; nothing else gives an event.
C1_RepresentableWeeks ==
    [][ IF PassingHere
        THEN AddsWeeks(Representable(WeekSetOf(CellAt(row_idx, col_idx)),
                                     weekday_map[WeekdayAt(col_idx).s]))
        ELSE events' = events ]_vars

\* a Monday cell of the 1-2 row gave events 7 days apart from 08:00 to 09:50,
\* and a cell gave week 416109 while its week 416110 was dropped
C1_Witness ==
    /\ pc = "done"
    /\ \E i \in 1..(Len(events) - 1) :
          /\ events[i].dtstart = [day |-> 0, hour |-> 8, minute |-> 0]
          /\ events[i].dtend = [day |-> 0, hour |-> 9, minute |-> 50]
          /\ events[i + 1].dtstart = [day |-> 7, hour |-> 8, minute |-> 0]
    /\ \E i \in 1..Len(events) : events[i].description.week = 416109
    /\ \A i \in 1..Len(events) : events[i].description.week # 416110

\* the row's slot label is not in class_time_map
UnknownSlotRow(time_slot) ==
    /\ time_slot.isStr
    /\ SlotSearch(time_slot.s) # <<>>
    /\ TimeKey(SlotSearch(time_slot.s)) \notin DOMAIN class_time_map

\* the cell holds something, and parse_course_info returns none for it or
\* parse_weeks returns the empty WeekSet
FailingCell(cell) ==
    /\ ~Falsy(cell)
    /\ \/ parse_course_info(cell) = None
       \/ WeekSetOf(cell) = <<>>

\* the grid with every failing unit blank: the cells of a row with an unknown
\* slot, the cells of a column with an unknown weekday, the failing cells
Blanked(d) ==
    [d EXCEPT !.rows =
        [r \in 1..Len(d.rows) |->
            [d.rows[r] EXCEPT !.cells =
                [c \in 1..WeekdayColumns |->
                    IF \/ UnknownSlotRow(d.rows[r].time_slot)
                       \/ ~KnownWeekday(d.weekdays[c])
                       \/ FailingCell(d.rows[r].cells[c])
                    THEN NoneArg
                    ELSE d.rows[r].cells[c]]]]]

\* the loop iterations still to come: the cursor of the two loops, backwards
Remaining ==
    IF pc = "done" THEN 0
    ELSE 1 + (DfLen - row_idx) * (WeekdayColumns + 3)
           + (IF pc = "col" THEN WeekdayColumns + 2 - col_idx ELSE WeekdayColumns + 3)

\* C5: a failing unit (unknown slot row, unknown weekday column, cell that does
\* not parse, cell without weeks) gives no event and the other units give the
\* events they give when the failing unit is blank; every step moves the loops
\* on, the run ends at the end of the grid and returns the number of events.
C5_FailuresScoped ==
    /\ [](pc = "done" =>
            /\ row_idx = DfLen
            /\ event_count = Len(events)
            /\ events = RowsEvents(Blanked(df), 1))
    /\ [][ /\ Remaining' < Remaining
           /\ Remaining' >= 0
           /\ (pc' = "done") = (pc = "row" /\ row_idx = DfLen) ]_vars

\* a run that ended with events of the last row's Thursday cell, after a row
\* with an unknown slot, a cell without weeks and beside an unknown weekday
C5_Witness ==
    /\ pc = "done"
    /\ Len(df.rows) >= 2
    /\ UnknownSlotRow(df.rows[1].time_slot)
    /\ df.rows[1].cells[1] = GoodCell
    /\ KnownSlotRow(df.rows[Len(df.rows)].time_slot)
    /\ \E c \in 1..3 : FailingCell(df.rows[Len(df.rows)].cells[c])
    /\ ~KnownWeekday(df.weekdays[5])
    /\ events # <<>>
    /\ events[Len(events)].dtstart.day % 7 = 3

\* the label is U+7B2C N-M U+8282 and N and M are the same number
SinglePeriodLabel(time_slot) ==
    /\ time_slot.isStr
    /\ Len(time_slot.s) >= 5
    /\ time_slot.s[1] = "di"
    /\ time_slot.s[Len(time_slot.s)] = "jie"
    /\ LET mid == SubSeq(time_slot.s, 2, Len(time_slot.s) - 1)
       IN  IsRange(mid) /\ RangeLo(mid) = RangeHi(mid)

\* C6: while the loops are at a row labelled U+7B2C N-M U+8282 with N equal to
\* M, however the two are written, no event is added.
C6_SinglePeriodRow ==
    [][ (AtRow /\ SinglePeriodLabel(TimeSlotAt(row_idx))) => events' = events ]_vars

\* the loops are past a row labelled 01-1 whose Monday cell is a good cell
C6_Witness ==
    /\ pc = "row"
    /\ row_idx > HeaderRows
    /\ SinglePeriodLabel(TimeSlotAt(row_idx - 1))
    /\ SlotSearch(TimeSlotAt(row_idx - 1).s)[1] # SlotSearch(TimeSlotAt(row_idx - 1).s)[2]
    /\ CellAt(row_idx - 1, 1) = GoodCell
    /\ KnownWeekday(WeekdayAt(1))

====
